---- MODULE Spec2Model ----
(***************************************************************************)
(* A model of the bulk image compressor (src/image_compressor.py):         *)
(* ImageCompressor.__init__, compress_images (the serial loop),            *)
(* _compress_images_parallel (pool sizing, dispatch, the draining loop,    *)
(* close/join), the pool's worker processes and _compress_image.           *)
(*                                                                         *)
(* The imaging library and the filesystem are the environment: every input *)
(* file carries a "fate", the point at which processing it fails, if any:  *)
(*   "ok"     the image is decoded, its parent directory made, it is saved *)
(*   "decode" Image.open / convert raises (corrupt or unsupported file)    *)
(*   "mkdir"  os.makedirs of the output's parent directory raises          *)
(*   "encode" img.save raises (permission denied, disk full, bad params)   *)
(***************************************************************************)
EXTENDS Integers, Sequences, FiniteSets, TLC

\* ---------------------------------------------------------------- bounds
\* The largest number of image files in the input directory.
MaxJobs == 3
\* The largest number of CPU cores the scheduler sees.
MaxCores == 4
\* The largest number of CPU cores of the pool sizing on its own.
MaxSizingCores == 8
\* The largest image dimension and max_width of the resize computations.
MaxDim == 6
\* The most changes other programs make to the input folder during a run.
MaxChurn == 1
\* psutil.cpu_percent() is a percentage.
MaxLoad == 100

Fates == {"ok", "decode", "mkdir", "encode"}
RootKinds == {"missing", "file", "dir"}
\* worker_id=None, the serial call of _compress_image. Jobs are numbered from 1
\* here (enumerate numbers them from 0), so that 0 is no job's number.
None == 0

VARIABLES
    \* --- the environment
    inputRoot,      \* what input_folder names: "missing", "file" or "dir"
    files,          \* the files under input_folder now, in enumeration order:
                    \* each a path (directory below the root, name) and a fate
    parallel,       \* the --parallel option
    recursive,      \* the --recursive option
    break_structure, \* the --break_structure option
    churn,          \* how many changes other programs have made to the input folder
    run,            \* which run of the pipeline this is (1, or 2 after a rerun)
    prevPaths,      \* the output paths on disk when the previous run ended
    \* --- the main process
    pc,             \* where the main process is
    output_format,  \* self.output_format, a string as a tuple of characters
    images,         \* self.images: the (input_path, output_path) pairs, in discovery order
    outputRootMade, \* __init__ has ensured that output_folder exists
    idx,            \* the serial loop's position in self.images (1-based)
    completed,      \* the progress count: pbar's n / the draining loop's completed
    dispatched,     \* how many jobs have been handed out for processing
    \* --- the pool (parallel mode)
    numWorkers,     \* processes=num_cores, after sizing
    taskQueue,      \* the pool's task queue: jobs submitted and not yet taken
    worker,         \* worker[w]: the job worker w is running, 0 when idle
    task,           \* task[w]: how far worker w is in _compress_image
    progressQueue,  \* the manager's queue of completion signals
    \* --- effects
    results,        \* one record per return of _compress_image, in order
    errorLog,       \* the lines of error_log.txt
    outputs,        \* the output files on disk: path -> the jobs whose bytes it holds
    outDirs,        \* the directories made below output_folder by os.makedirs
    \* --- pool sizing on its own (SizingSpec)
    num_cores, system_load, pool_size,
    \* --- the resize computation on its own (ResizeSpec)
    resize, max_width, img_width, img_height, new_size

envVars == <<inputRoot, files, parallel, recursive, break_structure, churn, run, prevPaths>>
runVars == <<envVars, pc, output_format, images, outputRootMade, idx, completed,
             dispatched, numWorkers, taskQueue, worker, task, progressQueue, results,
             errorLog, outputs, outDirs>>
sizingVars == <<num_cores, system_load, pool_size>>
resizeVars == <<resize, max_width, img_width, img_height, new_size>>
pureVars == <<sizingVars, resizeVars>>
vars == <<runVars, sizingVars, resizeVars>>

\* ------------------------------------------------------- pure functions

Max(a, b) == IF a >= b THEN a ELSE b

\* The sizing with the thresholds compared strictly (load < 25, load < 50).
PoolSize_StrictThresholds(cores, load) ==
    IF load < 25 THEN Max(1, (cores \div 2) + 1)
    ELSE IF load < 50 THEN Max(1, cores \div 2)
    ELSE 1

\* The worker count of _compress_images_parallel, from the core count and the load.
PoolSize(cores, load) ==
    IF load <= 25 THEN Max(1, (cores \div 2) + 1)
    ELSE IF load <= 50 THEN Max(1, cores \div 2)
    ELSE 1

\* int((max_width / width) * height): the product is not negative, so int()
\* truncates it to its floor. For max_width, width and height up to 21 the
\* double precision quotient and product give exactly the floor of the exact
\* value max_width * height / width; above that they can fall one short of it
\* (int((13 / 23) * 23) is 12), which is outside the dimensions modelled here.
NewHeight(mw, w, h) == (mw * h) \div w

\* The size _compress_image saves the image with.
ResizedSize(rs, mw, w, h) ==
    IF rs /\ w > mw THEN <<mw, NewHeight(mw, w, h)>> ELSE <<w, h>>

\* os.path.exists and os.path.isdir of the input folder.
Exists(root) == root # "missing"
IsDir(root) == root = "dir"
\* The check with the directory test left out: any existing path passes.
InputFolderValid_ExistsOnly(root) == Exists(root)

\* The check that opens __init__; when it fails __init__ raises FileNotFoundError.
InputFolderValid(root) == ~(~Exists(root) \/ ~IsDir(root))

\* ---------------------------------------------------- names and paths
\* A string is a tuple of characters, so that lower(), endswith() and
\* os.path.splitext() are computed as Python computes them. A path is a
\* directory relative to its root ("." is the root itself) and a file name.

\* str.lower(), for the letters of the names modelled.
LowerChar(c) ==
    CASE c = "P" -> "p" [] c = "N" -> "n" [] c = "G" -> "g" [] c = "J" -> "j"
      [] c = "X" -> "x" [] OTHER -> c
Lower(s) == [i \in DOMAIN s |-> LowerChar(s[i])]

\* str.endswith(suffix)
EndsWith(s, suffix) ==
    /\ Len(s) >= Len(suffix)
    /\ SubSeq(s, Len(s) - Len(suffix) + 1, Len(s)) = suffix

\* The suffixes _get_images accepts: they are given without a dot.
ImageSuffixes ==
    { <<"j", "p", "g">>, <<"j", "p", "e", "g">>, <<"p", "n", "g">>,
      <<"w", "e", "b", "p">>, <<"t", "i", "f", "f">>, <<"g", "i", "f">>,
      <<"b", "m", "p">> }

\* file.lower().endswith(('jpg', 'jpeg', 'png', 'webp', 'tiff', 'gif', 'bmp'))
IsImageName(name) == \E suffix \in ImageSuffixes : EndsWith(Lower(name), suffix)

\* os.path.splitext(file)[0]: the name up to its last dot; a dot with only dots
\* before it starts no extension.
SplitextStem(name) ==
    LET dots == {i \in DOMAIN name :
                    /\ name[i] = "."
                    /\ \E k \in 1..(i - 1) : name[k] # "."}
    IN  IF dots = {} THEN name
        ELSE SubSeq(name, 1, (CHOOSE i \in dots : \A k \in dots : k <= i) - 1)

RootDir == "."

\* The output path with the output directory always output_folder itself.
OutputPath_AlwaysRoot(input, rec, flat, fmt) ==
    [dir |-> RootDir, name |-> SplitextStem(input.name) \o <<".">> \o fmt]

\* The output path of one input file: the output directory (output_folder
\* itself, or the input's directory below it when the tree is walked and kept),
\* then the stem and the output format as the extension.
OutputPath(input, rec, flat, fmt) ==
    [dir |-> IF rec /\ ~flat THEN input.dir ELSE RootDir,
     name |-> SplitextStem(input.name) \o <<".">> \o fmt]

\* _get_images choosing another output name when the output file exists already.
GetImages_AvoidExisting(paths, rec, flat, fmt) ==
    LET Found(p) == IsImageName(p.name) /\ (rec \/ p.dir = RootDir)
        found == SelectSeq(paths, Found)
        Out(p) == LET o == OutputPath(p, rec, flat, fmt)
                  IN  IF o \in DOMAIN outputs
                          THEN [o EXCEPT !.name = SplitextStem(p.name) \o <<"_", "1", ".">> \o fmt]
                          ELSE o
    IN  [i \in DOMAIN found |-> [input |-> found[i], output |-> Out(found[i])]]

\* _get_images: one (input_path, output_path) pair per image file, in
\* enumeration order: the whole tree with recursive, else the root's own files.
GetImages(paths, rec, flat, fmt) ==
    LET Found(p) == IsImageName(p.name) /\ (rec \/ p.dir = RootDir)
        found == SelectSeq(paths, Found)
    IN  [i \in DOMAIN found |->
            [input |-> found[i], output |-> OutputPath(found[i], rec, flat, fmt)]]

\* The format check of __init__: jpg and jpeg become jpeg, png and webp stay,
\* anything else defaults to jpeg.
NormalFormat(fmt) ==
    IF fmt \in {<<"j", "p", "g">>, <<"j", "p", "e", "g">>} THEN <<"j", "p", "e", "g">>
    ELSE IF fmt \notin {<<"j", "p", "e", "g">>, <<"p", "n", "g">>, <<"w", "e", "b", "p">>}
        THEN <<"j", "p", "e", "g">>
        ELSE fmt

\* output_format='jpeg', the default of __init__ and of the command line.
DefaultFormat == <<"j", "p", "e", "g">>

Paths(fs) == [i \in DOMAIN fs |-> fs[i].path]
Jobs == 1..Len(images)

\* The fate of job j's input file now; a file that is no longer there cannot be
\* opened.
Fate(j) ==
    LET at == {i \in DOMAIN files : files[i].path = images[j].input}
    IN  IF at = {} THEN "decode" ELSE files[CHOOSE i \in at : TRUE].fate

\* What processing job j meets: os.makedirs(..., exist_ok=True) of output_folder
\* itself, which __init__ has made, does not fail.
Meets(j) ==
    IF Fate(j) = "mkdir" /\ images[j].output.dir = RootDir THEN "ok" ELSE Fate(j)

\* The output paths that exist on disk.
OutputPaths == DOMAIN outputs

\* ------------------------------------------------------------- Init

\* The files of the modelled runs, in the order they are enumerated (the root's
\* files before those of its subdirectories, as os.walk gives them).
RunFiles ==
    << [dir |-> ".", name |-> <<"x", ".", "p", "n", "g">>],
       [dir |-> ".", name |-> <<"x", ".", "j", "p", "g">>],
       [dir |-> ".", name |-> <<"y", ".", "p", "n", "g">>],
       [dir |-> "a", name |-> <<"x", ".", "p", "n", "g">>],
       [dir |-> "b", name |-> <<"x", ".", "p", "n", "g">>] >>

\* The members of a set of positions, in increasing order.
Ordered(S) ==
    CHOOSE f \in [1..Cardinality(S) -> S] : \A i, k \in 1..Cardinality(S) : i < k => f[i] < f[k]

\* Every choice of at most n files of a universe, each with every fate of Fs.
FileListsOf(universe, n, Fs) ==
    UNION { { [i \in 1..Cardinality(S) |->
                  [path |-> universe[Ordered(S)[i]], fate |-> ft[i]]] :
              ft \in [1..Cardinality(S) -> Fs] } :
            S \in {T \in SUBSET DOMAIN universe : Cardinality(T) <= n} }

\* A directory that cannot be made is one below the root.
FileLists ==
    {fs \in FileListsOf(RunFiles, MaxJobs, Fates) :
        \A i \in DOMAIN fs : fs[i].fate = "mkdir" => fs[i].path.dir # RootDir}

RunIdle ==
    /\ pc = "Start"
    /\ images = <<>>
    /\ outputRootMade = FALSE
    /\ idx = 0
    /\ completed = 0
    /\ dispatched = 0
    /\ numWorkers = 0
    /\ taskQueue = <<>>
    /\ worker = <<>>
    /\ task = <<>>
    /\ progressQueue = <<>>
    /\ results = <<>>

\* A first run: nothing logged, an empty output folder, an untouched input folder.
Fresh ==
    /\ churn = 0
    /\ run = 1
    /\ prevPaths = {}
    /\ errorLog = <<>>
    /\ outputs = <<>>
    /\ outDirs = {}

SizingIdle == num_cores = 0 /\ system_load = 0 /\ pool_size = 0
ResizeIdle ==
    resize = FALSE /\ max_width = 0 /\ img_width = 0 /\ img_height = 0 /\ new_size = <<>>

Init ==
    /\ inputRoot \in RootKinds
    /\ files \in (IF inputRoot = "dir" THEN FileLists ELSE {<<>>})
    /\ parallel \in BOOLEAN
    /\ recursive \in BOOLEAN
    /\ break_structure \in BOOLEAN
    /\ output_format = DefaultFormat
    /\ RunIdle
    /\ Fresh
    /\ SizingIdle
    /\ ResizeIdle

\* ------------------------------------------------- the main process

\* __main__ constructs the compressor. __init__ checks the input folder first and
\* raises FileNotFoundError, which __main__ answers with sys.exit(1); otherwise
\* it lowers the format, discovers the images, normalizes the format and then
\* ensures the output folder.
Construct ==
    /\ pc = "Start"
    /\ IF InputFolderValid(inputRoot)
         THEN /\ images' = GetImages(Paths(files), recursive, break_structure,
                                     Lower(output_format))
              /\ output_format' = NormalFormat(Lower(output_format))
              /\ outputRootMade' = TRUE
              /\ pc' = "Constructed"
         ELSE /\ pc' = "Exit1"
              /\ UNCHANGED <<images, output_format, outputRootMade>>
    /\ UNCHANGED <<pureVars, envVars, idx, completed, dispatched, numWorkers,
                   taskQueue, worker, task, progressQueue, results, errorLog, outputs,
                   outDirs>>

\* compress_images discovering the images again when it is called.
CompressImages_Rediscover ==
    /\ pc = "Constructed"
    /\ images' = GetImages(Paths(files), recursive, break_structure, output_format)
    /\ IF Len(images') = 0
         THEN pc' = "Done" /\ idx' = idx
         ELSE IF parallel
             THEN pc' = "Sizing" /\ idx' = idx
             ELSE pc' = "SerialMakedirs" /\ idx' = 1
    /\ UNCHANGED <<pureVars, envVars, output_format, outputRootMade, completed,
                   dispatched, numWorkers, taskQueue, worker, task, progressQueue,
                   results, errorLog, outputs, outDirs>>

\* compress_images with the empty list checked in serial mode only.
CompressImages_EmptyCheckSerialOnly ==
    /\ pc = "Constructed"
    /\ IF parallel
         THEN pc' = "Sizing" /\ idx' = idx
         ELSE IF Len(images) = 0
             THEN pc' = "Done" /\ idx' = idx
             ELSE pc' = "SerialMakedirs" /\ idx' = 1
    /\ UNCHANGED <<pureVars, envVars, output_format, images, outputRootMade, completed,
                   dispatched, numWorkers, taskQueue, worker, task, progressQueue,
                   results, errorLog, outputs, outDirs>>

\* compress_images up to the choice of mode: nothing to do for an empty list.
CompressImages ==
    /\ pc = "Constructed"
    /\ IF Len(images) = 0
         THEN pc' = "Done" /\ idx' = idx
         ELSE IF parallel
             THEN pc' = "Sizing" /\ idx' = idx
             ELSE pc' = "SerialMakedirs" /\ idx' = 1
    /\ UNCHANGED <<pureVars, envVars, output_format, images, outputRootMade, completed,
                   dispatched, numWorkers, taskQueue, worker, task, progressQueue,
                   results, errorLog, outputs, outDirs>>

\* The line written for a failed job: f"Error :: {input_path} :: {e}", its
\* fields in the order of the line.
LogLine(j, cause) ==
    [fields |-> <<"tag", "input_path", "cause">>,
     tag |-> "Error", input_path |-> images[j].input, cause |-> cause]

\* The except block with the log opened in mode "w": the file is truncated.
LogError_Truncating(j, cause) == errorLog' = <<LogLine(j, cause)>>

\* The except block that only prints the error (as bulk_image_compressor.py
\* does) and writes no log line.
LogError_PrintOnly(j, cause) == errorLog' = errorLog

\* The except block of _compress_image: the line is appended to error_log.txt,
\* opened in append mode, in one write.
LogError(j, cause) == errorLog' = Append(errorLog, LogLine(j, cause))

\* os.makedirs(dir, exist_ok=True) below output_folder.
MadeDirs(dir) == IF dir = RootDir THEN outDirs ELSE outDirs \cup {dir}

\* The disk after a write to an output path: the file holds the given bytes.
Written(path, bytes) ==
    [q \in DOMAIN outputs \cup {path} |-> IF q = path THEN bytes ELSE outputs[q]]

\* The end of the try block: the image is saved and, in a pool worker, the
\* completion signal is put; _compress_image returns.
Succeed(j, worker_id, bytes) ==
    /\ outputs' = Written(images[j].output, bytes)
    /\ progressQueue' = IF worker_id # None
                           THEN Append(progressQueue, worker_id)
                           ELSE progressQueue
    /\ results' = Append(results, [job |-> j, tag |-> "Success"])
    /\ errorLog' = errorLog

\* The except block reached with a partly written output file left behind.
Fail_LeavesOutput(j, cause) ==
    /\ LogError(j, cause)
    /\ results' = Append(results, [job |-> j, tag |-> "Failure"])
    /\ outputs' = Written(images[j].output, {j})
    /\ UNCHANGED progressQueue

\* The except block: the error is logged; _compress_image returns.
Fail(j, cause) ==
    /\ LogError(j, cause)
    /\ results' = Append(results, [job |-> j, tag |-> "Failure"])
    /\ UNCHANGED <<outputs, progressQueue>>

\* _compress_image(input_path, output_path, worker_id) for job j, as one step:
\* decode, os.makedirs of the parent directory, save and signal; any exception
\* on the way goes to the except block.
CompressImage(j, worker_id) ==
    IF Meets(j) = "ok"
        THEN /\ outDirs' = MadeDirs(images[j].output.dir)
             /\ Succeed(j, worker_id, {j})
        ELSE /\ outDirs' = IF Meets(j) = "encode"
                              THEN MadeDirs(images[j].output.dir)
                              ELSE outDirs
             /\ Fail(j, Meets(j))

\* The serial loop, one job: os.makedirs of the parent directory, outside any
\* try: an exception here leaves compress_images and ends the process.
SerialMakedirs ==
    /\ pc = "SerialMakedirs"
    /\ dispatched' = dispatched + 1
    /\ IF Meets(idx) = "mkdir"
         THEN pc' = "Crashed" /\ outDirs' = outDirs
         ELSE pc' = "SerialCompress" /\ outDirs' = MadeDirs(images[idx].output.dir)
    /\ UNCHANGED <<pureVars, envVars, output_format, images, outputRootMade, idx,
                   completed, numWorkers, taskQueue, worker, task, progressQueue,
                   results, errorLog, outputs>>

SerialCompress ==
    /\ pc = "SerialCompress"
    /\ CompressImage(idx, None)
    /\ pc' = "SerialUpdate"
    /\ UNCHANGED <<pureVars, envVars, output_format, images, outputRootMade, idx,
                   completed, dispatched, numWorkers, taskQueue, worker, task>>

\* The serial loop with the progress advanced only after a successful job.
SerialUpdate_OnlyOnSuccess ==
    /\ pc = "SerialUpdate"
    /\ completed' = IF results[Len(results)].tag = "Success" THEN completed + 1 ELSE completed
    /\ IF idx < Len(images)
         THEN idx' = idx + 1 /\ pc' = "SerialMakedirs"
         ELSE idx' = idx /\ pc' = "Done"
    /\ UNCHANGED <<pureVars, envVars, output_format, images, outputRootMade, dispatched,
                   numWorkers, taskQueue, worker, task, progressQueue, results,
                   errorLog, outputs, outDirs>>

\* pbar.update(1), then the next job of the for loop, or the end of the run.
SerialUpdate ==
    /\ pc = "SerialUpdate"
    /\ completed' = completed + 1
    /\ IF idx < Len(images)
         THEN idx' = idx + 1 /\ pc' = "SerialMakedirs"
         ELSE idx' = idx /\ pc' = "Done"
    /\ UNCHANGED <<pureVars, envVars, output_format, images, outputRootMade, dispatched,
                   numWorkers, taskQueue, worker, task, progressQueue, results,
                   errorLog, outputs, outDirs>>

\* ------------------------------------------------------ parallel mode

\* A worker with no task.
IdleTask == [stage |-> "idle", cause |-> "ok", mixed |-> {}]

\* cpu_count and cpu_percent are sampled once; the pool size follows.
Sizing ==
    /\ pc = "Sizing"
    /\ \E cores \in 1..MaxCores, load \in 0..MaxLoad :
           numWorkers' = PoolSize(cores, load)
    /\ pc' = "Dispatching"
    /\ UNCHANGED <<pureVars, envVars, output_format, images, outputRootMade, idx,
                   completed, dispatched, taskQueue, worker, task, progressQueue,
                   results, errorLog, outputs, outDirs>>

\* The pool is started and every job submitted with apply_async, in list order.
Dispatch ==
    /\ pc = "Dispatching"
    /\ worker' = [w \in 1..numWorkers |-> 0]
    /\ task' = [w \in 1..numWorkers |-> IdleTask]
    /\ taskQueue' = [j \in 1..Len(images) |-> j]
    /\ dispatched' = Len(images)
    /\ pc' = "Draining"
    /\ UNCHANGED <<pureVars, envVars, output_format, images, outputRootMade, idx,
                   completed, numWorkers, progressQueue, results, errorLog, outputs,
                   outDirs>>

\* The loop condition one short: the loop ends before the last signal.
DrainContinue_OffByOne(done, total) == done + 1 < total

\* while completed < len(self.images)
DrainContinue(done, total) == done < total

\* The draining loop taking the job index a signal carries for the count.
DrainGet_CountIndex ==
    /\ pc = "Draining"
    /\ DrainContinue(completed, Len(images))
    /\ progressQueue # <<>>
    /\ progressQueue' = Tail(progressQueue)
    /\ completed' = Head(progressQueue)
    /\ UNCHANGED <<pureVars, envVars, pc, output_format, images, outputRootMade, idx,
                   dispatched, numWorkers, taskQueue, worker, task, results, errorLog,
                   outputs, outDirs>>

\* One turn of the draining loop: progress_queue.get() blocks until a signal is
\* there, then the count advances.
DrainGet ==
    /\ pc = "Draining"
    /\ DrainContinue(completed, Len(images))
    /\ progressQueue # <<>>
    /\ progressQueue' = Tail(progressQueue)
    /\ completed' = completed + 1
    /\ UNCHANGED <<pureVars, envVars, pc, output_format, images, outputRootMade, idx,
                   dispatched, numWorkers, taskQueue, worker, task, results, errorLog,
                   outputs, outDirs>>

\* The loop ends and the pool is closed.
DrainExit ==
    /\ pc = "Draining"
    /\ ~DrainContinue(completed, Len(images))
    /\ pc' = "Joining"
    /\ UNCHANGED <<pureVars, envVars, output_format, images, outputRootMade, idx,
                   completed, dispatched, numWorkers, taskQueue, worker, task,
                   progressQueue, results, errorLog, outputs, outDirs>>

\* The run reported complete without pool.join(): the workers are left alive.
PoolJoin_NoJoin ==
    /\ pc = "Joining"
    /\ pc' = "Done"
    /\ UNCHANGED <<pureVars, envVars, output_format, images, outputRootMade, idx,
                   completed, dispatched, numWorkers, taskQueue, worker, task,
                   progressQueue, results, errorLog, outputs, outDirs>>

\* pool.join() returns when every task is done and every worker has exited.
PoolJoin ==
    /\ pc = "Joining"
    /\ taskQueue = <<>>
    /\ \A w \in DOMAIN worker : worker[w] = 0
    /\ worker' = <<>>
    /\ task' = <<>>
    /\ pc' = "Done"
    /\ UNCHANGED <<pureVars, envVars, output_format, images, outputRootMade, idx,
                   completed, dispatched, numWorkers, taskQueue, progressQueue,
                   results, errorLog, outputs, outDirs>>

\* An idle worker takes the next task of the pool's queue.
WorkerTake(w) ==
    /\ pc \in {"Draining", "Joining"}
    /\ worker[w] = 0
    /\ taskQueue # <<>>
    /\ worker' = [worker EXCEPT ![w] = Head(taskQueue)]
    /\ task' = [task EXCEPT ![w].stage = "run"]
    /\ taskQueue' = Tail(taskQueue)
    /\ UNCHANGED <<pureVars, envVars, pc, output_format, images, outputRootMade, idx,
                   completed, dispatched, numWorkers, progressQueue, results,
                   errorLog, outputs, outDirs>>

\* The workers that are saving to the output path of job j.
SavingTo(j) ==
    {v \in DOMAIN worker :
        /\ task[v].stage = "save"
        /\ images[worker[v]].output = images[j].output}

\* A worker runs _compress_image(input_path, output_path, idx) up to the point
\* where img.save has opened the output file, which truncates it, or up to the
\* except block, where error_log.txt is opened. Saves of several workers to one
\* path overlap: their bytes mix.
WorkerRun(w) ==
    /\ pc \in {"Draining", "Joining"}
    /\ worker[w] # 0
    /\ task[w].stage = "run"
    /\ LET j == worker[w]
           others == SavingTo(j)
       IN  IF Meets(j) = "ok"
               THEN /\ outDirs' = MadeDirs(images[j].output.dir)
                    /\ outputs' = Written(images[j].output, {})
                    /\ task' = [v \in DOMAIN task |->
                                   IF v = w
                                       THEN [stage |-> "save", cause |-> "ok",
                                             mixed |-> {j} \cup {worker[u] : u \in others}]
                                   ELSE IF v \in others
                                       THEN [task[v] EXCEPT !.mixed = @ \cup {j}]
                                       ELSE task[v]]
               ELSE /\ outDirs' = IF Meets(j) = "encode"
                                     THEN MadeDirs(images[j].output.dir)
                                     ELSE outDirs
                    /\ outputs' = outputs
                    /\ task' = [task EXCEPT ![w] = [stage |-> "log", cause |-> Meets(j),
                                                    mixed |-> {}]]
    /\ UNCHANGED <<pureVars, envVars, pc, output_format, images, outputRootMade, idx,
                   completed, dispatched, numWorkers, taskQueue, worker,
                   progressQueue, results, errorLog>>

\* The save ends: the file holds this job's bytes, or a mix when another save to
\* the same path overlapped it; the signal is put and the worker is idle again.
WorkerSave(w) ==
    /\ pc \in {"Draining", "Joining"}
    /\ worker[w] # 0
    /\ task[w].stage = "save"
    /\ \E bytes \in {{worker[w]}, task[w].mixed} : Succeed(worker[w], worker[w], bytes)
    /\ worker' = [worker EXCEPT ![w] = 0]
    /\ task' = [task EXCEPT ![w] = IdleTask]
    /\ UNCHANGED <<pureVars, envVars, pc, output_format, images, outputRootMade, idx,
                   completed, dispatched, numWorkers, taskQueue, outDirs>>

\* The log line is written and the file closed; the worker is idle again.
WorkerLog(w) ==
    /\ pc \in {"Draining", "Joining"}
    /\ worker[w] # 0
    /\ task[w].stage = "log"
    /\ Fail(worker[w], task[w].cause)
    /\ worker' = [worker EXCEPT ![w] = 0]
    /\ task' = [task EXCEPT ![w] = IdleTask]
    /\ UNCHANGED <<pureVars, envVars, pc, output_format, images, outputRootMade, idx,
                   completed, dispatched, numWorkers, taskQueue, outDirs>>

Next ==
    \/ Construct
    \/ CompressImages
    \/ SerialMakedirs
    \/ SerialCompress
    \/ SerialUpdate
    \/ Sizing
    \/ Dispatch
    \/ DrainGet
    \/ DrainExit
    \/ PoolJoin
    \/ \E w \in DOMAIN worker : WorkerTake(w)
    \/ \E w \in DOMAIN worker : WorkerRun(w)
    \/ \E w \in DOMAIN worker : WorkerSave(w)
    \/ \E w \in DOMAIN worker : WorkerLog(w)

Spec == Init /\ [][Next]_vars

\* ------------------------------------------- pool sizing on its own

\* ------------------------------------------------------- a second run

\* The program is started again with the same arguments after its first run has
\* ended: a new process, the same input folder, and the output folder and the
\* error log as the first run left them.
Rerun ==
    /\ pc \in {"Done", "Crashed"}
    /\ run = 1
    /\ run' = 2
    /\ prevPaths' = OutputPaths
    /\ pc' = "Start"
    /\ output_format' = DefaultFormat
    /\ images' = <<>>
    /\ outputRootMade' = FALSE
    /\ idx' = 0
    /\ completed' = 0
    /\ dispatched' = 0
    /\ numWorkers' = 0
    /\ taskQueue' = <<>>
    /\ worker' = <<>>
    /\ task' = <<>>
    /\ progressQueue' = <<>>
    /\ results' = <<>>
    /\ UNCHANGED <<pureVars, inputRoot, files, parallel, recursive, break_structure,
                   churn, errorLog, outputs, outDirs>>

TwoRunsNext == Next \/ Rerun

TwoRunsSpec == Init /\ [][TwoRunsNext]_vars

\* ------------------------------------- the input folder changes meanwhile

\* The process has been constructed and has not ended.
Running == pc \notin {"Start", "Exit1", "Done", "Crashed"}

\* Something else adds an image file to the input folder after construction.
AddFile ==
    /\ Running
    /\ churn < MaxChurn
    /\ \E i \in DOMAIN RunFiles :
           /\ \A k \in DOMAIN files : files[k].path # RunFiles[i]
           /\ files' = Append(files, [path |-> RunFiles[i], fate |-> "ok"])
    /\ churn' = churn + 1
    /\ UNCHANGED <<pureVars, inputRoot, parallel, recursive, break_structure, run,
                   prevPaths, pc, output_format, images, outputRootMade, idx,
                   completed, dispatched, numWorkers, taskQueue, worker, task,
                   progressQueue, results, errorLog, outputs, outDirs>>

\* Something else removes a file from the input folder after construction.
RemoveFile ==
    /\ Running
    /\ churn < MaxChurn
    /\ \E i \in DOMAIN files :
           files' = SubSeq(files, 1, i - 1) \o SubSeq(files, i + 1, Len(files))
    /\ churn' = churn + 1
    /\ UNCHANGED <<pureVars, inputRoot, parallel, recursive, break_structure, run,
                   prevPaths, pc, output_format, images, outputRootMade, idx,
                   completed, dispatched, numWorkers, taskQueue, worker, task,
                   progressQueue, results, errorLog, outputs, outDirs>>

ChurnNext == Next \/ AddFile \/ RemoveFile

ChurnSpec == Init /\ [][ChurnNext]_vars

\* ------------------------------------------- path resolution on its own

\* The names path resolution is checked on: two extensions of one stem, an upper
\* case name, a name that is no image, a name that ends with an accepted suffix
\* without a dot, and one name in two subdirectories.
PathFiles ==
    << [dir |-> ".", name |-> <<"x", ".", "p", "n", "g">>],
       [dir |-> ".", name |-> <<"x", ".", "j", "p", "g">>],
       [dir |-> ".", name |-> <<"X", ".", "P", "N", "G">>],
       [dir |-> ".", name |-> <<"x", ".", "t", "x", "t">>],
       [dir |-> ".", name |-> <<"x", "p", "n", "g">>],
       [dir |-> "a", name |-> <<"x", ".", "p", "n", "g">>],
       [dir |-> "b", name |-> <<"x", ".", "p", "n", "g">>] >>

\* The values given for output_format: the three formats, jpg, upper case and a
\* format that is not supported.
Formats ==
    { <<"j", "p", "e", "g">>, <<"j", "p", "g">>, <<"p", "n", "g">>,
      <<"w", "e", "b", "p">>, <<"P", "N", "G">>, <<"b", "m", "p">> }

PathInit ==
    /\ inputRoot = "dir"
    /\ files \in FileListsOf(PathFiles, MaxJobs, {"ok"})
    /\ parallel = FALSE
    /\ recursive \in BOOLEAN
    /\ break_structure \in BOOLEAN
    /\ output_format \in Formats
    /\ RunIdle
    /\ Fresh
    /\ SizingIdle
    /\ ResizeIdle

PathNext == Construct

PathSpec == PathInit /\ [][PathNext]_vars

\* No run: the main process is not started.
RunOff ==
    /\ inputRoot = "dir"
    /\ files = <<>>
    /\ parallel = TRUE
    /\ recursive = FALSE
    /\ break_structure = FALSE
    /\ output_format = DefaultFormat
    /\ RunIdle
    /\ Fresh

SizingInit ==
    /\ num_cores \in 1..MaxSizingCores
    /\ system_load \in 0..MaxLoad
    /\ pool_size = 0
    /\ RunOff
    /\ ResizeIdle

\* The sizing of _compress_images_parallel for the sampled cores and load.
SizePool ==
    /\ pool_size = 0
    /\ pool_size' = PoolSize(num_cores, system_load)
    /\ UNCHANGED <<num_cores, system_load, runVars, resizeVars>>

SizingNext == SizePool

SizingSpec == SizingInit /\ [][SizingNext]_vars

\* ------------------------------------- the resize computation on its own

ResizeInit ==
    /\ resize \in BOOLEAN
    /\ max_width \in 1..MaxDim
    /\ img_width \in 1..MaxDim
    /\ img_height \in 1..MaxDim
    /\ new_size = <<>>
    /\ RunOff
    /\ SizingIdle

\* The resize step of _compress_image for an image of img_width x img_height.
Resize ==
    /\ new_size = <<>>
    /\ new_size' = ResizedSize(resize, max_width, img_width, img_height)
    /\ UNCHANGED <<resize, max_width, img_width, img_height, runVars, sizingVars>>

ResizeNext == Resize

ResizeSpec == ResizeInit /\ [][ResizeNext]_vars


\* ------------------------------------------------------- observations

\* The status the process ends with: sys.exit(1) after the FileNotFoundError
\* of __init__, 1 after an uncaught exception, 0 after a normal return.
ExitStatus == IF pc = "Done" THEN 0 ELSE 1

Successes == {i \in DOMAIN results : results[i].tag = "Success"}
Failures == {i \in DOMAIN results : results[i].tag = "Failure"}
ResultsOf(j) == {i \in DOMAIN results : results[i].job = j}
LogLinesOf(j) == {i \in DOMAIN errorLog : errorLog[i].input_path = images[j].input}

\* The completion signals put on the progress queue so far: those the draining
\* loop has taken and those still waiting in the queue.
SignalsPut == completed + Len(progressQueue)

\* The pool has nothing left to do: no task waits and no worker runs one.
PoolQuiet == taskQueue = <<>> /\ \A w \in DOMAIN worker : worker[w] = 0

\* The run is over: the process has ended, or nothing can happen any more.
RunOver == pc \in {"Done", "Crashed", "Exit1"} \/ ~ENABLED Next

\* --------------------------------------------------------------- claims

\* C1: in parallel mode, whatever jobs succeed or fail, the run goes on until
\* Done: as long as the run has not ended, some step of the main process or of a
\* worker is possible, so the draining loop never waits for a completion signal
\* that nothing is left to send.
C1_ParallelRunReachesDone ==
    (parallel /\ pc \notin {"Done", "Exit1"}) => ENABLED Next

\* C2: in parallel mode every finished job, successful or failed, has put exactly
\* one completion signal on the progress queue: the number of signals put equals
\* the number of jobs finished.
C2_OneSignalPerFinishedJob ==
    parallel => SignalsPut = Len(results)

\* C3: when a run is over, in serial and in parallel mode, every dispatched job
\* has produced exactly one outcome: the successes and the failures together are
\* as many as the jobs dispatched.
C3_OutcomesEqualDispatched ==
    RunOver =>
        /\ Cardinality(Successes) + Cardinality(Failures) = dispatched
        /\ \A j \in 1..dispatched : Cardinality(ResultsOf(j)) = 1

\* C4: in serial and in parallel mode, a job that _compress_image has processed
\* has exactly one line in the error log when it failed (its input could not be
\* decoded, its directory not made or its output not saved) and none when it
\* succeeded, and a job not yet processed has none: the log has as many lines as
\* there are failures.
C4_OneLogLinePerFailure ==
    /\ \A j \in Jobs :
          Cardinality(LogLinesOf(j)) =
              Cardinality({i \in ResultsOf(j) : Meets(j) # "ok"})
    /\ \A i \in DOMAIN results :
          results[i].tag = (IF Meets(results[i].job) = "ok" THEN "Success" ELSE "Failure")
    /\ Len(errorLog) = Cardinality(Failures)

C4_Witness ==
    /\ pc = "Done"
    /\ Successes # {}
    /\ Failures # {}
    /\ Len(errorLog) = Cardinality(Failures)

\* C5: no per-job error unwinds through the scheduler: the run never ends with
\* an uncaught exception, and when the run is over every job of the list, those
\* after a failed job too, has been executed once.
C5_PerJobErrorsContained ==
    /\ pc # "Crashed"
    /\ RunOver => \A j \in Jobs : Cardinality(ResultsOf(j)) = 1

\* C6: in serial mode the jobs finish in discovery order, the job in hand is the
\* one after the last finished job, the progress count is the number of finished
\* jobs (one behind between a job's end and its pbar.update), and at Done the
\* count equals the total.
C6_SerialInOrder ==
    ~parallel =>
        /\ \A i \in DOMAIN results : results[i].job = i
        /\ pc \in {"SerialMakedirs", "SerialCompress"} =>
              idx = Len(results) + 1 /\ completed = Len(results)
        /\ pc = "SerialUpdate" => idx = Len(results) /\ completed + 1 = Len(results)
        /\ pc = "Done" => completed = Len(images) /\ Len(results) = Len(images)

C6_Witness ==
    /\ ~parallel
    /\ pc = "Done"
    /\ completed = Len(images)
    /\ Successes # {}
    /\ Failures # {}

\* C7: in parallel mode the scheduler is past the draining loop only when it has
\* taken exactly as many completion signals as jobs were dispatched and every
\* dispatched job has finished, in whatever order the signals came; and it never
\* takes more signals than there are jobs, nor more than were put.
C7_DrainCountsAllJobs ==
    parallel =>
        /\ completed <= Len(images)
        /\ completed <= Cardinality(Successes)
        /\ pc \in {"Joining", "Done"} =>
              /\ completed = dispatched
              /\ Len(results) = dispatched
              /\ PoolQuiet

\* The signals came out of index order.
C7_Witness ==
    /\ parallel
    /\ pc = "Done"
    /\ completed = Len(images)
    /\ Len(results) >= 2
    /\ results[1].job # 1

\* C8: the pool size for the sampled cores and load is floor(cores/2)+1 up to a
\* load of 25, floor(cores/2) above 25 and up to 50, and 1 above 50, never less
\* than 1, and no higher load gives a larger pool.
C8_PoolSizing ==
    pool_size # 0 =>
        /\ pool_size >= 1
        /\ system_load <= 25 => pool_size = (num_cores \div 2) + 1
        /\ (system_load > 25 /\ system_load <= 50 /\ num_cores >= 2) =>
              pool_size = num_cores \div 2
        /\ (system_load > 25 /\ system_load <= 50 /\ num_cores < 2) => pool_size = 1
        /\ system_load > 50 => pool_size = 1
        /\ \A load \in system_load..MaxLoad : PoolSize(num_cores, load) <= pool_size
        /\ (num_cores = 8 /\ system_load = 20) => pool_size = 5
        /\ (num_cores = 8 /\ system_load = 40) => pool_size = 4
        /\ (num_cores = 8 /\ system_load = 70) => pool_size = 1

C8_Witness == num_cores = 8 /\ system_load = 40 /\ pool_size = 4

\* h is max_width * height / width rounded to a nearest integer (either
\* neighbour when the value is halfway).
IsRounded(h, mw, w, ht) ==
    /\ 2 * (h * w - mw * ht) <= w
    /\ 2 * (mw * ht - h * w) <= w

\* C9: with resize on and the width above max_width the image is resized to
\* (max_width, round(max_width * height / width)); otherwise its size is kept.
C9_ResizeRounds ==
    new_size # <<>> =>
        IF resize /\ img_width > max_width
            THEN /\ new_size[1] = max_width
                 /\ IsRounded(new_size[2], max_width, img_width, img_height)
            ELSE new_size = <<img_width, img_height>>

\* C10: when the input folder is missing or is not a directory, the run ends in
\* __init__ with status 1: no image is discovered, the output folder is not
\* made, no job is dispatched or run, nothing is logged or written.
C10_SetupErrorIsFatal ==
    inputRoot \in {"missing", "file"} =>
        /\ pc \in {"Start", "Exit1"}
        /\ pc = "Exit1" => ExitStatus # 0
        /\ images = <<>>
        /\ ~outputRootMade
        /\ dispatched = 0
        /\ results = <<>>
        /\ errorLog = <<>>
        /\ OutputPaths = {}
        /\ outDirs = {}

C10_Witness == pc = "Exit1" /\ inputRoot = "file"

\* C11: when discovery yields no image, in serial and in parallel mode, no job
\* is dispatched, no pool is started, the error log gets no line, the output
\* folder exists and holds nothing, and the run ends with status 0: after
\* construction the only step left is the return of compress_images.
C11_EmptyInput ==
    (pc \notin {"Start", "Exit1"} /\ images = <<>>) =>
        /\ pc \in {"Constructed", "Done"}
        /\ pc = "Constructed" => ENABLED CompressImages
        /\ pc = "Done" => ExitStatus = 0
        /\ dispatched = 0
        /\ numWorkers = 0
        /\ worker = <<>>
        /\ results = <<>>
        /\ errorLog = <<>>
        /\ outputRootMade
        /\ OutputPaths = {}
        /\ outDirs = {}

C11_Witness ==
    /\ pc = "Done"
    /\ parallel
    /\ files # <<>>
    /\ images = <<>>

\* The jobs that _compress_image has processed to its end.
Processed == {j \in Jobs : ResultsOf(j) # {}}

\* The jobs other than j that have the output path of j.
SameOutput(j) == {k \in Jobs \ {j} : images[k].output = images[j].output}

\* C12 as stated: a processed job whose input cannot be decoded has exactly one
\* Failure outcome and one log line, and when the run is over no file exists at
\* its output path.
C12_NoFileAtFailedPath ==
    \A j \in Processed :
        Meets(j) = "decode" =>
            /\ Cardinality(ResultsOf(j)) = 1
            /\ ResultsOf(j) \subseteq Failures
            /\ Cardinality(LogLinesOf(j)) = 1
            /\ RunOver => images[j].output \notin OutputPaths

\* C12, amended: in a run that starts with an empty output folder, a processed
\* job whose input cannot be decoded has exactly one Failure outcome and one log
\* line and writes nothing: no file holds bytes of it, and a file exists at its
\* output path only when another job with the same output path could be decoded.
C12_DecodeFailureWritesNothing ==
    \A j \in Processed :
        Meets(j) = "decode" =>
            /\ Cardinality(ResultsOf(j)) = 1
            /\ ResultsOf(j) \subseteq Failures
            /\ Cardinality(LogLinesOf(j)) = 1
            /\ \A p \in OutputPaths : j \notin outputs[p]
            /\ images[j].output \in OutputPaths =>
                   \E k \in SameOutput(j) : Meets(k) = "ok"

C12_Witness ==
    /\ pc = "Done"
    /\ \E j \in Processed :
           /\ Meets(j) = "decode"
           /\ images[j].output \in OutputPaths
    /\ \E j \in Processed :
           /\ Meets(j) = "decode"
           /\ images[j].output \notin OutputPaths

\* The job whose save to path p ended last.
LastSaved(p) ==
    LET saves == {i \in Successes : images[results[i].job].output = p}
    IN  results[CHOOSE i \in saves : \A k \in saves : k <= i].job

\* C13: with recursive and break_structure, in serial and in parallel mode,
\* inputs with the same stem map to one output path, every decodable job is
\* saved and counted once and has no log line, and when the run is Done each
\* output file holds the bytes of the job whose save to it ended last.
C13_LastWriterWins ==
    (recursive /\ break_structure) =>
        /\ \A j, k \in Jobs :
              SplitextStem(images[j].input.name) = SplitextStem(images[k].input.name)
                  => images[j].output = images[k].output
        /\ pc = "Done" =>
              /\ \A j \in Jobs :
                    Meets(j) = "ok" =>
                        /\ Cardinality(ResultsOf(j)) = 1
                        /\ ResultsOf(j) \subseteq Successes
                        /\ LogLinesOf(j) = {}
              /\ \A p \in OutputPaths : outputs[p] = {LastSaved(p)}

\* C14: in a second run on the same input folder with the same options and
\* break_structure off, the set of output paths is at every moment, and so when
\* the run has ended, the set the first run left.
C14_SamePathsOnSecondRun ==
    (run = 2 /\ ~break_structure) => OutputPaths = prevPaths

C14_Witness ==
    /\ run = 2
    /\ ~break_structure
    /\ recursive
    /\ pc = "Done"
    /\ Cardinality(OutputPaths) >= 2
    /\ outDirs # {}
    /\ Successes # {}

C16_LogEntryFields ==
    \A i \in DOMAIN errorLog :
        errorLog[i].fields = <<"input_path", "byte_size", "cause">>

\* C17: in a serial and in a parallel run the completed count stays between 0
\* and the number of jobs, and a step leaves it or adds one to it: in parallel
\* mode it adds one exactly when a completion signal is taken from the queue,
\* whatever job index the signal carries, in serial mode exactly when a job has
\* returned.
C17_ProgressMonotonicBounded ==
    /\ [](0 <= completed /\ completed <= Len(images))
    /\ [][/\ completed' \in {completed, completed + 1}
          /\ parallel =>
                (completed' = completed + 1 <=>
                    progressQueue # <<>> /\ progressQueue' = Tail(progressQueue))
          /\ ~parallel =>
                (completed' = completed + 1 <=> pc = "SerialUpdate")]_vars

C17_Witness ==
    /\ parallel
    /\ completed = 2
    /\ Len(results) >= 2
    /\ results[1].job = 2

\* C18: in parallel mode the pool's workers exist only while the main process is
\* draining or joining, and when the run is Done no worker is left and no job
\* waits or runs.
C18_JoinedBeforeDone ==
    parallel =>
        /\ worker # <<>> => pc \in {"Draining", "Joining"}
        /\ pc = "Done" => worker = <<>> /\ task = <<>> /\ taskQueue = <<>>

C18_Witness ==
    /\ parallel
    /\ pc = "Done"
    /\ numWorkers >= 2
    /\ Len(results) >= 2

\* C19: while files are added to or removed from the input folder after
\* construction, the list of (input, output) pairs stays what __init__
\* discovered; only jobs of that list are dispatched and processed, in serial
\* mode in the order of the list, and a run that is Done has processed each of
\* them.
C19_WorkListFixed ==
    /\ [][pc # "Start" => images' = images]_vars
    /\ [](/\ \A i \in DOMAIN taskQueue : taskQueue[i] \in Jobs
          /\ \A i \in DOMAIN results : results[i].job \in Jobs
          /\ ~parallel => \A i \in DOMAIN results : results[i].job = i
          /\ pc = "Done" => \A j \in Jobs : Cardinality(ResultsOf(j)) = 1)

C19_Witness ==
    /\ churn > 0
    /\ pc = "Done"
    /\ images # <<>>
    /\ Len(files) > Len(images)
    /\ \E j \in Jobs : \A i \in DOMAIN files : files[i].path # images[j].input

Extension(name) == SubSeq(name, Len(SplitextStem(name)) + 2, Len(name))

\* C21: once the compressor is constructed, whatever string was given for the
\* output format, the format it encodes with is jpeg, png or webp and the
\* extension of every output path it has computed is that format.
C21_ExtensionIsNormalFormat ==
    pc # "Start" =>
        /\ output_format \in {<<"j", "p", "e", "g">>, <<"p", "n", "g">>,
                              <<"w", "e", "b", "p">>}
        /\ \A j \in Jobs : Extension(images[j].output.name) = output_format

\* What _compress_image leaves for the jobs of the list, each taken alone: the
\* files saved, the directories made below output_folder, the lines logged.
JobFiles == {images[j].output : j \in {k \in Jobs : Meets(k) = "ok"}}
JobDirs ==
    {images[j].output.dir : j \in {k \in Jobs : Meets(k) \in {"ok", "encode"}}}
        \ {RootDir}
JobLines == {LogLine(j, Meets(j)) : j \in {k \in Jobs : Meets(k) # "ok"}}

\* No two jobs of the list have the same output path.
DistinctOutputs ==
    \A j, k \in Jobs : j # k => images[j].output # images[k].output

\* C22: when a run on a job list with pairwise distinct output paths, where no
\* job's directory fails to be made, has come to rest, in serial mode and in
\* parallel mode with any pool size and any interleaving, the output files, the
\* directories made and the lines of the error log are the same function of the
\* job list and the jobs' results: what _compress_image leaves for each job.
C22_ModesLeaveSameEffects ==
    (/\ RunOver
     /\ pc # "Exit1"
     /\ DistinctOutputs
     /\ \A j \in Jobs : Meets(j) # "mkdir") =>
        /\ OutputPaths = JobFiles
        /\ outDirs = JobDirs
        /\ {errorLog[i] : i \in DOMAIN errorLog} = JobLines
        /\ Len(errorLog) = Cardinality(JobLines)

====
